---------------------------- MODULE Spec2Model ----------------------------
(***************************************************************************)
(* A model of mailq-monitor.go: one run of main.  The run loads and        *)
(* validates the configuration, probes every configured server over SSH    *)
(* (runSSHCommand, getSSHAuthMethod), parses and evaluates each output,    *)
(* and submits one alert email (sendEmail) when a threshold was reached.   *)
(*                                                                         *)
(* Go strings that the program builds or parses are sequences of tokens:   *)
(* a command output is a sequence of characters, a report line and the     *)
(* composed message are sequences of the pieces Sprintf and Join put       *)
(* together.                                                               *)
(***************************************************************************)
EXTENDS Integers, Sequences, FiniteSets, TLC

(* ------------------------------ bounds --------------------------------- *)

\* Largest configuration, by ConfigSize: a server counts twice, an address of
\* the To, Cc or Bcc list once.
MaxSize == 5
\* Longest raw standard output of a remote command, in characters.
MaxOut == 2

(* ------------------------------ inputs --------------------------------- *)

\* Characters a remote command may print.
Chars == {"1", "-", "\n"}
Passwords == {"", "secret"}
Thresholds == {-1, 0, 1}
SockValues == {"", "/tmp/agent.sock"}
SmtpPorts == {<<"2", "5">>, <<"0">>}

\* The host of the server configured at position i.
HostAt(i) == IF i % 2 = 1 THEN "h1" ELSE "h2"
\* The i-th address of the To and of the Bcc list, and of the Cc list.
AddrAt(i) == IF i % 2 = 1 THEN "a@ex.jp" ELSE "b@ex.jp"
CcAddrAt(i) == IF i % 2 = 1 THEN "c@ex.jp" ELSE "a@ex.jp"

RECURSIVE SeqsUpTo(_, _)
\* All sequences over S of length at most n.
SeqsUpTo(S, n) ==
    IF n = 0 THEN {<<>>}
    ELSE LET shorter == SeqsUpTo(S, n - 1)
         IN  shorter \cup {Append(s, x) : s \in shorter, x \in S}

Outputs == SeqsUpTo(Chars, MaxOut)

(* ------------------------ configuration types -------------------------- *)

\* Server, lines 27-34.
Server ==
    [user : {"root"}, password : Passwords, host : {HostAt(i) : i \in 1..2},
     port : {""}, commands : {"mailq"}, threshold : Thresholds]

ServerLists ==
    {s \in SeqsUpTo(Server, MaxSize \div 2) :
        \A i \in 1..Len(s) : s[i].host = HostAt(i)}

\* Email, lines 45-54.
Email ==
    {[smtp_server |-> "relay", smtp_port |-> p, from |-> "mon@ex.jp",
      to |-> [i \in 1..nt |-> AddrAt(i)], cc |-> [i \in 1..nc |-> CcAddrAt(i)],
      bcc |-> [i \in 1..nb |-> AddrAt(i)], subject |-> "Alert",
      messages |-> "Queue exceeded."] :
        p \in SmtpPorts,
        nt \in 0..MaxSize, nc \in 0..MaxSize, nb \in 0..MaxSize}

\* Config, lines 21-24.
ConfigSize(c) ==
    2 * Len(c.servers) + Len(c.email.to) + Len(c.email.cc) + Len(c.email.bcc)

Config == {c \in [servers : ServerLists, email : Email] : ConfigSize(c) <= MaxSize}

\* The zero value of Config, which loadConfig's callers see on a failed load.
ZeroConfig ==
    [servers |-> <<>>,
     email |-> [smtp_server |-> "", smtp_port |-> <<>>, from |-> "",
                to |-> <<>>, cc |-> <<>>, bcc |-> <<>>, subject |-> "",
                messages |-> ""]]

(* ------------------------- string conversions -------------------------- *)

Digits == <<"0", "1", "2", "3", "4", "5", "6", "7", "8", "9">>
IsDigit(c) == \E i \in 1..10 : Digits[i] = c
DigitVal(c) == (CHOOSE i \in 1..10 : Digits[i] = c) - 1
IsSpace(c) == c \in {" ", "\n", "\t", "\r"}

RECURSIVE TrimLeft(_)
TrimLeft(s) ==
    IF s # <<>> /\ IsSpace(Head(s)) THEN TrimLeft(Tail(s)) ELSE s

RECURSIVE TrimRight(_)
TrimRight(s) ==
    IF s # <<>> /\ IsSpace(s[Len(s)])
    THEN TrimRight(SubSeq(s, 1, Len(s) - 1))
    ELSE s

\* strings.TrimSpace
TrimSpace(s) == TrimRight(TrimLeft(s))

RECURSIVE DigitsVal(_)
\* The number a non-empty sequence of digits denotes.
DigitsVal(s) ==
    IF s = <<>> THEN 0
    ELSE 10 * DigitsVal(SubSeq(s, 1, Len(s) - 1)) + DigitVal(s[Len(s)])

\* A conversion whose error is dropped: what does not parse counts as 0.
AtoiZeroOnError(s) ==
    LET signed == s # <<>> /\ s[1] \in {"+", "-"}
        body == IF signed THEN Tail(s) ELSE s
        good == body # <<>> /\ \A i \in 1..Len(body) : IsDigit(body[i])
    IN  [ok |-> TRUE,
         val |-> IF ~good THEN 0
                 ELSE IF signed /\ s[1] = "-" THEN 0 - DigitsVal(body)
                 ELSE DigitsVal(body)]

\* strconv.Atoi: an optional sign, then one or more decimal digits.
Atoi(s) ==
    LET signed == s # <<>> /\ s[1] \in {"+", "-"}
        body == IF signed THEN Tail(s) ELSE s
        good == body # <<>> /\ \A i \in 1..Len(body) : IsDigit(body[i])
    IN  IF ~good THEN [ok |-> FALSE, val |-> 0]
        ELSE [ok |-> TRUE,
              val |-> IF signed /\ s[1] = "-" THEN 0 - DigitsVal(body)
                      ELSE DigitsVal(body)]

RECURSIVE NatDigits(_)
NatDigits(n) ==
    IF n < 10 THEN <<Digits[n + 1]>>
    ELSE Append(NatDigits(n \div 10), Digits[(n % 10) + 1])

\* The %d verb of fmt.Sprintf.
Itoa(n) == IF n < 0 THEN <<"-">> \o NatDigits(0 - n) ELSE NatDigits(n)

RECURSIVE Join(_, _)
\* strings.Join of a list of strings, each a sequence of tokens.
Join(parts, sep) ==
    IF parts = <<>> THEN <<>>
    ELSE IF Len(parts) = 1 THEN parts[1]
    ELSE parts[1] \o <<sep>> \o Join(Tail(parts), sep)

\* A list of one-token strings (addresses) as a list of token sequences.
Singletons(xs) == [i \in 1..Len(xs) |-> <<xs[i]>>]

(* ------------------------------ state ---------------------------------- *)

VARIABLES
    config,      \* the content of config.yaml
    loadErr,     \* "none", or why loadConfig fails: "read", "yaml"
    sock,        \* the value of SSH_AUTH_SOCK in the environment
    pc,          \* where main stands
    idx,         \* the position in config.Servers of the current iteration
    calls,       \* per target, how often runSSHCommand was called
    authMethod,  \* the auth method of the current probe
    agentConn,   \* whether a connection to the SSH agent is open
    sshConn,     \* whether an SSH client connection is open
    sshSession,  \* whether an SSH session is open
    sessions,    \* sessions opened on the current SSH connection
    output,      \* what runSSHCommand returned to main
    results,     \* per finished iteration, its (output, err), (value, err)
    alerts,      \* main's alerts
    alertMaker,  \* main's alertMaker
    smtpConn,    \* whether the SMTP client connection is open
    wcOpen,      \* whether the DATA writer is open
    recipients,  \* sendEmail's recipients
    rcptIdx,     \* the position in recipients of the next RCPT
    msg,         \* sendEmail's msg
    dispatched,  \* how often main reached its alertMaker test
    net,         \* the environment reads and network operations so far, in order
    log,         \* the lines written to the log so far, in order
    exitCode     \* the exit status of the process, -1 while it runs

vars ==
    <<config, loadErr, sock, pc, idx, calls, authMethod, agentConn, sshConn,
      sshSession, sessions, output, results, alerts, alertMaker, smtpConn,
      wcOpen, recipients, rcptIdx, msg, dispatched, net, log, exitCode>>

probeVars == <<authMethod, agentConn, sshConn, sshSession, sessions, output>>
smtpVars == <<smtpConn, wcOpen, recipients, rcptIdx, msg>>
inputVars == <<config, loadErr, sock>>

Init ==
    /\ \/ loadErr = "none" /\ config \in Config
       \/ loadErr \in {"read", "yaml"} /\ config = ZeroConfig
    /\ sock \in SockValues
    /\ pc = "load"
    /\ idx = 0
    /\ calls = <<>>
    /\ authMethod = "none"
    /\ agentConn = FALSE
    /\ sshConn = FALSE
    /\ sshSession = FALSE
    /\ sessions = 0
    /\ output = <<>>
    /\ results = <<>>
    /\ alerts = <<>>
    /\ alertMaker = FALSE
    /\ smtpConn = FALSE
    /\ wcOpen = FALSE
    /\ recipients = <<>>
    /\ rcptIdx = 0
    /\ msg = <<>>
    /\ dispatched = 0
    /\ net = <<>>
    /\ log = <<>>
    /\ exitCode = -1


(* --------------------------- configuration ----------------------------- *)

\* Server.GetPort
GetPort(s) == IF s.port = "" THEN "22" ELSE s.port

\* A server loop that returns after the server at position i.
ValidateServersFirstOnly(servers, i) ==
    IF i > Len(servers) THEN ""
    ELSE LET s == servers[i]
         IN  IF s.user = "" THEN "user"
             ELSE IF s.host = "" THEN "host"
             ELSE IF s.commands = "" THEN "commands"
             ELSE IF s.threshold < 0 THEN "threshold"
             ELSE ""

RECURSIVE ValidateServers(_, _)
\* The server loop of validateConfig, from position i on: the first error.
ValidateServers(servers, i) ==
    IF i > Len(servers) THEN ""
    ELSE LET s == servers[i]
         IN  IF s.user = "" THEN "user"
             ELSE IF s.host = "" THEN "host"
             ELSE IF s.commands = "" THEN "commands"
             ELSE IF s.threshold < 0 THEN "threshold"
             ELSE ValidateServers(servers, i + 1)

\* A validation that also asks for an address in the To list.
ValidateConfigToRequired(c) ==
    LET port == Atoi(c.email.smtp_port)
    IN  IF Len(c.servers) = 0 THEN "no servers"
        ELSE IF ValidateServers(c.servers, 1) # ""
             THEN ValidateServers(c.servers, 1)
        ELSE IF c.email.smtp_server = "" THEN "smtp_server"
        ELSE IF ~port.ok \/ port.val < 1 \/ port.val > 65535 THEN "smtp_port"
        ELSE IF c.email.from = "" THEN "from"
        ELSE IF Len(c.email.to) = 0 THEN "to"
        ELSE ""

\* validateConfig: "" when the configuration is accepted, else what is wrong.
\* The user, host, command and address patterns are not modelled: the inputs
\* drawn all match them.
ValidateConfig(c) ==
    LET port == Atoi(c.email.smtp_port)
    IN  IF Len(c.servers) = 0 THEN "no servers"
        ELSE IF ValidateServers(c.servers, 1) # ""
             THEN ValidateServers(c.servers, 1)
        ELSE IF c.email.smtp_server = "" THEN "smtp_server"
        ELSE IF ~port.ok \/ port.val < 1 \/ port.val > 65535 THEN "smtp_port"
        ELSE IF c.email.from = "" THEN "from"
        ELSE ""

Servers == config.servers
NumServers == Len(config.servers)

\* log.Fatalf: the line is logged and the process exits with status 1.
Fatal(kind, cause) ==
    /\ log' = Append(log, [kind |-> kind, about |-> "", cause |-> cause])
    /\ exitCode' = 1
    /\ pc' = "exit"

\* main, lines 283-286.
LoadConfig ==
    /\ pc = "load"
    /\ IF loadErr # "none"
       THEN Fatal("load_error", loadErr)
       ELSE /\ pc' = "validate"
            /\ UNCHANGED <<log, exitCode>>
    /\ UNCHANGED <<inputVars, idx, calls, probeVars, results, alerts,
                   alertMaker, smtpVars, dispatched, net>>

\* main, lines 289-296: validation, then entry into the loop over the servers.
Validate ==
    /\ pc = "validate"
    /\ IF ValidateConfig(config) # ""
       THEN /\ Fatal("invalid_config", ValidateConfig(config))
            /\ UNCHANGED <<idx, calls>>
       ELSE /\ pc' = "auth"
            /\ idx' = 1
            /\ calls' = [i \in 1..NumServers |-> 0]
            /\ UNCHANGED <<log, exitCode>>
    /\ UNCHANGED <<inputVars, probeVars, results, alerts, alertMaker,
                   smtpVars, dispatched, net>>

(* ------------------------------ probing -------------------------------- *)

\* The end of one iteration of main's loop: the next server, or past the loop.
NextIteration ==
    /\ idx' = idx + 1
    /\ pc' = IF idx < NumServers THEN "auth" ELSE "dispatch"

\* A loop that a failed probe ends: break in the place of continue.
ProbeFailedAbort(cause) ==
    /\ log' = Append(log, [kind |-> "exec_error", about |-> Servers[idx].host,
                           cause |-> cause])
    /\ results' = Append(results, [target |-> idx, outcome |-> "ExecutionFailure",
                                   value |-> 0])
    /\ authMethod' = "none"
    /\ output' = <<>>
    /\ UNCHANGED <<alerts, alertMaker>>
    /\ idx' = idx + 1
    /\ pc' = "dispatch"

\* A failed probe that is skipped without a word in the log.
ProbeFailedSilent(cause) ==
    /\ results' = Append(results, [target |-> idx, outcome |-> "ExecutionFailure",
                                   value |-> 0])
    /\ authMethod' = "none"
    /\ output' = <<>>
    /\ UNCHANGED <<alerts, alertMaker, log>>
    /\ NextIteration

\* runSSHCommand returned an error: main logs it and continues (298-301).
ProbeFailed(cause) ==
    /\ log' = Append(log, [kind |-> "exec_error", about |-> Servers[idx].host,
                           cause |-> cause])
    /\ results' = Append(results, [target |-> idx, outcome |-> "ExecutionFailure",
                                   value |-> 0])
    /\ authMethod' = "none"
    /\ output' = <<>>
    /\ UNCHANGED <<alerts, alertMaker>>
    /\ NextIteration

\* An auth method that prefers the agent whenever SSH_AUTH_SOCK is set.
AuthSourceAgentFirst(password, sockValue) ==
    IF sockValue # "" THEN "agent"
    ELSE IF password # "" THEN "password"
    ELSE "none"

\* getSSHAuthMethod, lines 190-200: where the auth method comes from.  A
\* non-empty password decides it; only without one is SSH_AUTH_SOCK read.
AuthSource(password, sockValue) ==
    IF password # "" THEN "password"
    ELSE IF sockValue = "" THEN "none"
    ELSE "agent"

\* runSSHCommand's entry and getSSHAuthMethod up to the agent dial.
AuthStart ==
    /\ pc = "auth"
    /\ calls' = [calls EXCEPT ![idx] = @ + 1]
    /\ LET source == AuthSource(Servers[idx].password, sock)
           getenv == [op |-> "getenv", arg |-> <<"SSH_AUTH_SOCK">>,
                      ok |-> sock # ""]
       IN  IF source = "password"
           THEN /\ authMethod' = "password"
                /\ pc' = "dial"
                /\ UNCHANGED <<idx, agentConn, output, results, alerts,
                               alertMaker, log, net>>
           ELSE IF source = "none"
           THEN /\ net' = Append(net, getenv)
                /\ ProbeFailed("SSH_AUTH_SOCK variable is not found")
                /\ UNCHANGED agentConn
           ELSE \E ok \in BOOLEAN :
                /\ net' = net \o <<getenv, [op |-> "agent_dial",
                                            arg |-> <<sock>>, ok |-> ok]>>
                /\ IF ok
                   THEN /\ agentConn' = TRUE
                        /\ pc' = "signers"
                        /\ UNCHANGED <<idx, authMethod, output, results,
                                       alerts, alertMaker, log>>
                   ELSE /\ ProbeFailed("failed to connect to SSH agent")
                        /\ UNCHANGED agentConn
    /\ UNCHANGED <<inputVars, sshConn, sshSession, sessions, smtpVars,
                   dispatched, exitCode>>

\* getSSHAuthMethod, lines 209-216: the signers, and the deferred conn.Close.
AgentSigners ==
    /\ pc = "signers"
    /\ agentConn' = FALSE
    /\ \E ok \in BOOLEAN :
         IF ok
         THEN /\ authMethod' = "agent"
              /\ pc' = "dial"
              /\ UNCHANGED <<idx, output, results, alerts, alertMaker, log>>
         ELSE ProbeFailed("failed to get signers from SSH agent")
    /\ UNCHANGED <<inputVars, calls, sshConn, sshSession, sessions, smtpVars,
                   dispatched, net, exitCode>>

\* Whether the auth method can answer the server's authentication request:
\* a password always can; the signers of agent.NewClient(conn).Signers() sign
\* by a request over conn, so they can only while conn is open.  (A server
\* that asks for no credential at all is not modelled.)
CanAuthenticate == authMethod = "password" \/ (authMethod = "agent" /\ agentConn)

\* runSSHCommand, lines 163-168: ssh.Dial.  The server is reached and takes the
\* offered password or key (accepted), or not; for a key it takes, the agent
\* is asked to sign.
SSHDial ==
    /\ pc = "dial"
    /\ \E accepted \in BOOLEAN :
         /\ net' = net
                \o (IF accepted /\ authMethod = "agent"
                    THEN <<[op |-> "agent_sign", arg |-> <<sock>>,
                            ok |-> agentConn]>>
                    ELSE <<>>)
                \o <<[op |-> "ssh_dial",
                      arg |-> <<Servers[idx].host, GetPort(Servers[idx])>>,
                      ok |-> accepted /\ CanAuthenticate]>>
         /\ IF accepted /\ CanAuthenticate
            THEN /\ sshConn' = TRUE
                 /\ sessions' = 0
                 /\ pc' = "session"
                 /\ UNCHANGED <<idx, authMethod, output, results, alerts,
                                alertMaker, log>>
            ELSE /\ ProbeFailed("failed to connect")
                 /\ UNCHANGED <<sshConn, sessions>>
    /\ UNCHANGED <<inputVars, calls, agentConn, sshSession, smtpVars,
                   dispatched, exitCode>>

\* A client closed by a call at the end of runSSHCommand, which a return on
\* an error never reaches.
ClientCloseNotDeferred(failed) == sshConn' = IF failed THEN sshConn ELSE FALSE

\* The deferred client.Close of line 168, run when runSSHCommand returns,
\* with an error (failed) or without.
ClientClose(failed) == sshConn' = FALSE

\* runSSHCommand, lines 171-175: client.NewSession; on failure the deferred
\* client.Close runs.
NewSession ==
    /\ pc = "session"
    /\ \E ok \in BOOLEAN :
         IF ok
         THEN /\ sshSession' = TRUE
              /\ sessions' = sessions + 1
              /\ pc' = "run"
              /\ UNCHANGED <<idx, authMethod, sshConn, output, results,
                             alerts, alertMaker, log>>
         ELSE /\ ProbeFailed("failed to create session")
              /\ ClientClose(TRUE)
              /\ UNCHANGED <<sshSession, sessions>>
    /\ UNCHANGED <<inputVars, calls, agentConn, smtpVars, dispatched, net,
                   exitCode>>

\* runSSHCommand, lines 178-187: session.Run, the trimmed output, and the
\* deferred session.Close and client.Close.
RunCommand ==
    /\ pc = "run"
    /\ sshSession' = FALSE
    /\ \E ok \in BOOLEAN, stdout \in Outputs :
         /\ ClientClose(~ok)
         /\ net' = Append(net, [op |-> "ssh_run",
                                arg |-> <<Servers[idx].commands>>, ok |-> ok])
         /\ IF ok
            THEN /\ output' = TrimSpace(stdout)
                 /\ pc' = "eval"
                 /\ UNCHANGED <<idx, authMethod, results, alerts, alertMaker,
                                log>>
            ELSE /\ stdout = <<>>
                 /\ ProbeFailed("failed to run command")
    /\ UNCHANGED <<inputVars, calls, agentConn, sessions, smtpVars,
                   dispatched, exitCode>>

\* The report line of main, lines 312 and 315: "%s: %d *" or "%s: %d".
ReportLine(host, value, exceeded) ==
    <<host, ": ">> \o Itoa(value) \o (IF exceeded THEN <<" *">> ELSE <<>>)

\* A threshold test that lets a value at the threshold pass.
ExceedsStrictly(value, threshold) == value > threshold

\* main's threshold test, line 311.
Exceeds(value, threshold) == value >= threshold

\* A report kept newest first.
PrependLine(lines, line) == <<line>> \o lines

\* main's append to alerts, lines 312 and 315.
AppendLine(lines, line) == Append(lines, line)

\* A flag that follows the server evaluated last.
MarkAlertLast(flag, exceeded) == exceeded

\* main's alertMaker after an iteration, lines 311-316: set in the branch of
\* a reached threshold, left alone in the other.
MarkAlert(flag, exceeded) == flag \/ exceeded

\* main, lines 303-317: parse the output, compare, append the report line.
Evaluate ==
    /\ pc = "eval"
    /\ LET parsed == Atoi(output)
           s == Servers[idx]
       IN  IF ~parsed.ok
           THEN /\ log' = Append(log, [kind |-> "parse_error", about |-> s.host,
                                       cause |-> "invalid syntax"])
                /\ results' = Append(results, [target |-> idx,
                                     outcome |-> "ParseFailure", value |-> 0])
                /\ UNCHANGED <<alerts, alertMaker>>
           ELSE /\ results' = Append(results, [target |-> idx,
                                     outcome |-> "Success", value |-> parsed.val])
                /\ LET exceeded == Exceeds(parsed.val, s.threshold)
                   IN  /\ alerts' = AppendLine(alerts,
                                        ReportLine(s.host, parsed.val, exceeded))
                       /\ alertMaker' = MarkAlert(alertMaker, exceeded)
                /\ UNCHANGED log
    /\ authMethod' = "none"
    /\ output' = <<>>
    /\ NextIteration
    /\ UNCHANGED <<inputVars, calls, agentConn, sshConn, sshSession, sessions,
                   smtpVars, dispatched, net, exitCode>>

(* ------------------------------ sending -------------------------------- *)

\* A message that also lists the blind-copy addresses in a header.
ComposeMessageWithBcc(email, lines) ==
    LET body == <<email.messages, "\n", "\n">> \o Join(lines, "\n")
        head == <<"From: ", email.from, "\n", "To: ">>
                    \o Join(Singletons(email.to), ", ") \o <<"\n">>
        cc == IF Len(email.cc) > 0
              THEN <<"Cc: ">> \o Join(Singletons(email.cc), ", ") \o <<"\n">>
              ELSE <<>>
        bcc == IF Len(email.bcc) > 0
               THEN <<"Bcc: ">> \o Join(Singletons(email.bcc), ", ") \o <<"\n">>
               ELSE <<>>
    IN  head \o cc \o bcc \o <<"Subject: ", email.subject, "\n", "\n">> \o body

\* A message that reports only the lines of a reached threshold.
ComposeMessageExceededOnly(email, lines) ==
    LET Marked(l) == l[Len(l)] = " *"
        body == <<email.messages, "\n", "\n">>
                    \o Join(SelectSeq(lines, Marked), "\n")
        head == <<"From: ", email.from, "\n", "To: ">>
                    \o Join(Singletons(email.to), ", ") \o <<"\n">>
        cc == IF Len(email.cc) > 0
              THEN <<"Cc: ">> \o Join(Singletons(email.cc), ", ") \o <<"\n">>
              ELSE <<>>
    IN  head \o cc \o <<"Subject: ", email.subject, "\n", "\n">> \o body

\* sendEmail's msg, lines 225-237.
ComposeMessage(email, lines) ==
    LET body == <<email.messages, "\n", "\n">> \o Join(lines, "\n")
        head == <<"From: ", email.from, "\n", "To: ">>
                    \o Join(Singletons(email.to), ", ") \o <<"\n">>
        cc == IF Len(email.cc) > 0
              THEN <<"Cc: ">> \o Join(Singletons(email.cc), ", ") \o <<"\n">>
              ELSE <<>>
    IN  head \o cc \o <<"Subject: ", email.subject, "\n", "\n">> \o body

\* Recipients with the blind copies first.
RecipientsBccFirst(email) == email.bcc \o email.to \o email.cc

\* sendEmail's recipients, lines 240-241.
Recipients(email) == email.to \o email.cc \o email.bcc

\* A submission whenever there is a report, whatever the flag.
SendsAlertIfAnyLine(flag, lines) == Len(lines) # 0

\* Whether a submission is started: main's test of alertMaker, line 320, and
\* sendEmail's test of the alerts, lines 220-222.
SendsAlert(flag, lines) == flag /\ Len(lines) # 0

\* main returns: the process exits with status 0.
Return ==
    /\ pc' = "exit"
    /\ exitCode' = 0

\* A failed submission that is tried again.
SendFailedRetry(about, cause) ==
    /\ log' = Append(log, [kind |-> "send_error", about |-> about,
                           cause |-> cause])
    /\ smtpConn' = FALSE
    /\ pc' = "dispatch"
    /\ UNCHANGED exitCode

\* sendEmail returned an error: its deferred Closes run, main logs the error
\* (lines 321-323) and returns.
SendFailed(about, cause) ==
    /\ log' = Append(log, [kind |-> "send_error", about |-> about,
                           cause |-> cause])
    /\ smtpConn' = FALSE
    /\ Return

\* main, lines 319-324, and sendEmail up to smtp.Dial, lines 219-249.
Dispatch ==
    /\ pc = "dispatch"
    /\ dispatched' = dispatched + 1
    /\ IF ~SendsAlert(alertMaker, alerts)
       THEN /\ Return
            /\ UNCHANGED <<smtpVars, net, log>>
       ELSE /\ msg' = ComposeMessage(config.email, alerts)
            /\ recipients' = Recipients(config.email)
            /\ \E ok \in BOOLEAN :
                 /\ net' = Append(net, [op |-> "smtp_dial",
                              arg |-> <<config.email.smtp_server>>
                                         \o config.email.smtp_port,
                              ok |-> ok])
                 /\ IF ok
                    THEN /\ smtpConn' = TRUE
                         /\ pc' = "smtp_mail"
                         /\ UNCHANGED <<log, exitCode>>
                    ELSE SendFailed("", "failed to connect to SMTP server")
            /\ UNCHANGED <<wcOpen, rcptIdx>>
    /\ UNCHANGED <<inputVars, idx, calls, probeVars, results, alerts,
                   alertMaker>>

\* sendEmail, lines 253-255: client.Mail.
SmtpMail ==
    /\ pc = "smtp_mail"
    /\ \E ok \in BOOLEAN :
         /\ net' = Append(net, [op |-> "smtp_mail", arg |-> <<config.email.from>>,
                                ok |-> ok])
         /\ IF ok
            THEN /\ rcptIdx' = 1
                 /\ pc' = IF Len(recipients) = 0 THEN "smtp_data" ELSE "smtp_rcpt"
                 /\ UNCHANGED <<smtpConn, log, exitCode>>
            ELSE /\ SendFailed("", "failed to set sender")
                 /\ UNCHANGED rcptIdx
    /\ UNCHANGED <<inputVars, idx, calls, probeVars, results, alerts,
                   alertMaker, wcOpen, recipients, msg, dispatched>>

\* sendEmail, lines 258-262: one client.Rcpt.
SmtpRcpt ==
    /\ pc = "smtp_rcpt"
    /\ \E ok \in BOOLEAN :
         /\ net' = Append(net, [op |-> "smtp_rcpt", arg |-> <<recipients[rcptIdx]>>,
                                ok |-> ok])
         /\ IF ok
            THEN /\ rcptIdx' = rcptIdx + 1
                 /\ pc' = IF rcptIdx = Len(recipients) THEN "smtp_data"
                          ELSE "smtp_rcpt"
                 /\ UNCHANGED <<smtpConn, log, exitCode>>
            ELSE /\ SendFailed(recipients[rcptIdx], "failed to set recipient")
                 /\ UNCHANGED rcptIdx
    /\ UNCHANGED <<inputVars, idx, calls, probeVars, results, alerts,
                   alertMaker, wcOpen, recipients, msg, dispatched>>

\* sendEmail, lines 265-269: client.Data.
SmtpData ==
    /\ pc = "smtp_data"
    /\ \E ok \in BOOLEAN :
         /\ net' = Append(net, [op |-> "smtp_data", arg |-> <<>>, ok |-> ok])
         /\ IF ok
            THEN /\ wcOpen' = TRUE
                 /\ pc' = "smtp_write"
                 /\ UNCHANGED <<smtpConn, log, exitCode>>
            ELSE /\ SendFailed("", "failed to send email data")
                 /\ UNCHANGED wcOpen
    /\ UNCHANGED <<inputVars, idx, calls, probeVars, results, alerts,
                   alertMaker, recipients, rcptIdx, msg, dispatched>>

\* sendEmail, lines 272-278: wc.Write, the success line, and on return the
\* deferred wc.Close (its error is dropped) and client.Close.
SmtpWrite ==
    /\ pc = "smtp_write"
    /\ \E ok \in BOOLEAN, closeOk \in BOOLEAN :
         /\ net' = net \o <<[op |-> "smtp_write", arg |-> msg, ok |-> ok],
                            [op |-> "smtp_data_close", arg |-> <<>>,
                             ok |-> closeOk]>>
         /\ IF ok
            THEN /\ log' = Append(log, [kind |-> "sent", about |-> "",
                                        cause |-> "Email alert sent successfully"])
                 /\ smtpConn' = FALSE
                 /\ Return
            ELSE SendFailed("", "failed to write email body")
    /\ wcOpen' = FALSE
    /\ UNCHANGED <<inputVars, idx, calls, probeVars, results, alerts,
                   alertMaker, recipients, rcptIdx, msg, dispatched>>

(* --------------------------- specification ----------------------------- *)

Next ==
    \/ LoadConfig
    \/ Validate
    \/ AuthStart
    \/ AgentSigners
    \/ SSHDial
    \/ NewSession
    \/ RunCommand
    \/ Evaluate
    \/ Dispatch
    \/ SmtpMail
    \/ SmtpRcpt
    \/ SmtpData
    \/ SmtpWrite

Spec == Init /\ [][Next]_vars

(* ------------------------- what the claims use ------------------------- *)

ProbePcs == {"auth", "signers", "dial", "session", "run", "eval"}
SmtpPcs == {"smtp_mail", "smtp_rcpt", "smtp_data", "smtp_write"}

\* main is inside its loop over the servers.
Probing == pc \in ProbePcs
\* main has left its loop over the servers.
LoopDone == pc = "dispatch" \/ pc \in SmtpPcs \/ (pc = "exit" /\ exitCode = 0)
\* main has returned.
Finished == pc = "exit" /\ exitCode = 0

IsSuccess(r) == r.outcome = "Success"
Successes == SelectSeq(results, IsSuccess)

\* The parts of a report line, read back from its text.
LineHost(line) == line[1]
LineExceeded(line) == line[Len(line)] = " *"
LineValue(line) ==
    Atoi(SubSeq(line, 3, IF LineExceeded(line) THEN Len(line) - 1 ELSE Len(line)))

SmtpOps ==
    {"smtp_dial", "smtp_mail", "smtp_rcpt", "smtp_data", "smtp_write",
     "smtp_data_close"}
\* The positions in net of the operations named op.
OpsAt(op) == {i \in 1..Len(net) : net[i].op = op}
\* Some operation on the SMTP relay has been attempted.
AnySmtp == \E i \in 1..Len(net) : net[i].op \in SmtpOps
\* A log line of the given kind has been written.
Logged(kind) == \E i \in 1..Len(log) : log[i].kind = kind

(* -------------------------------- C1 ----------------------------------- *)

\* C1: every configured target is probed exactly once, whatever happened to
\* the others.  No target is ever probed twice; inside the loop the targets
\* before the current one are probed and those after it are not; each
\* finished iteration left one result, in target order; when the loop is left
\* every target has been probed once and has its result; and every probe that
\* succeeded has its report line, whatever failed before it.
C1_EachTargetProbedOnce ==
    /\ \A i \in DOMAIN calls : calls[i] <= 1
    /\ \A j \in 1..Len(results) : results[j].target = j
    /\ Probing =>
         /\ Len(results) = idx - 1
         /\ \A i \in DOMAIN calls :
              calls[i] = IF i < idx \/ (i = idx /\ pc # "auth") THEN 1 ELSE 0
    /\ LoopDone =>
         /\ DOMAIN calls = 1..NumServers
         /\ \A i \in 1..NumServers : calls[i] = 1
         /\ Len(results) = NumServers
    /\ Len(alerts) = Len(Successes)

\* A finished run whose first target failed and whose second succeeded and is
\* reported.
C1_Witness ==
    /\ Finished
    /\ NumServers >= 2
    /\ results[1].outcome = "ExecutionFailure"
    /\ results[2].outcome = "Success"
    /\ Len(alerts) = 1
    /\ LineHost(alerts[1]) = Servers[2].host

(* -------------------------------- C2 ----------------------------------- *)

\* C2: at every point of a run the report lines are exactly the targets
\* probed so far whose probe succeeded and whose output parsed, in target
\* order: there are never more lines than targets, the results are those of
\* targets 1, 2, ... in that order, there is one line per success and none
\* for any other result, and the k-th line names the host and the value of
\* the k-th success.
C2_AlertsAreOrderedSubsequence ==
    /\ Len(alerts) <= NumServers
    /\ Len(results) <= NumServers
    /\ \A j \in 1..Len(results) : results[j].target = j
    /\ LET ok == Successes
       IN  /\ Len(alerts) = Len(ok)
           /\ \A k \in 1..Len(alerts) :
                /\ LineHost(alerts[k]) = Servers[ok[k].target].host
                /\ LineValue(alerts[k]) = [ok |-> TRUE, val |-> ok[k].value]

\* A finished run over two targets that both succeeded, with different
\* values: the report holds the first and then the second.
C2_Witness ==
    /\ Finished
    /\ NumServers = 2
    /\ results[1].outcome = "Success"
    /\ results[2].outcome = "Success"
    /\ results[1].value # results[2].value
    /\ Len(alerts) = 2
    /\ LineHost(alerts[1]) = Servers[1].host
    /\ LineHost(alerts[2]) = Servers[2].host
    /\ Servers[1].host # Servers[2].host

(* -------------------------------- C3 ----------------------------------- *)

\* C3: every report line is marked exceeded exactly when its value is at or
\* above the threshold of the target it came from, negative values included;
\* the value is the one the line prints.
C3_ExceededIffAtLeastThreshold ==
    LET ok == Successes
    IN  \A k \in 1..Len(alerts) :
            k <= Len(ok) =>
                LET r == ok[k]
                    threshold == Servers[r.target].threshold
                    printed == LineValue(alerts[k])
                IN  /\ LineExceeded(alerts[k]) <=> (r.value >= threshold)
                    /\ printed.ok
                    /\ LineExceeded(alerts[k]) <=> (printed.val >= threshold)

\* A report with a value exactly at its threshold, marked, and a negative
\* value one below its threshold, not marked.
C3_Witness ==
    /\ Len(alerts) = 2
    /\ Len(Successes) = 2
    /\ Successes[1].value = Servers[Successes[1].target].threshold
    /\ LineExceeded(alerts[1])
    /\ Successes[2].value = Servers[Successes[2].target].threshold - 1
    /\ Successes[2].value < 0
    /\ ~LineExceeded(alerts[2])

(* -------------------------------- C4 ----------------------------------- *)

AnyLineExceeded == \E k \in 1..Len(alerts) : LineExceeded(alerts[k])

\* C4: the any-exceeded flag is true exactly when some report line is marked
\* exceeded, at the end of the loop as at every iteration before it, so it is
\* false while the report is empty; and a step never takes it from true to
\* false.
C4_FlagIffSomeLineExceeded ==
    /\ [](alertMaker <=> AnyLineExceeded)
    /\ [](alerts = <<>> => ~alertMaker)
    /\ [][alertMaker => alertMaker']_vars

\* The loop has ended with a marked line followed by an unmarked one, and
\* the flag is still set.
C4_Witness ==
    /\ LoopDone
    /\ Len(alerts) = 2
    /\ LineExceeded(alerts[1])
    /\ ~LineExceeded(alerts[2])
    /\ alertMaker

(* -------------------------------- C5 ----------------------------------- *)

\* C5: the SMTP relay is contacted exactly in the runs whose any-exceeded
\* flag is true when probing ends.  Nothing is sent to the relay while the
\* loop runs or while the flag is false; a finished run has dialled the relay
\* if and only if the flag is set, which is if and only if some report line is
\* marked; and a finished run without a marked line has made no SMTP
\* operation and has logged neither a submission error nor a submission.
C5_RelayContactedIffExceeded ==
    /\ AnySmtp => alertMaker /\ LoopDone
    /\ pc \in SmtpPcs => alertMaker
    /\ Finished => (OpsAt("smtp_dial") # {} <=> alertMaker)
    /\ Finished => (OpsAt("smtp_dial") # {} <=> AnyLineExceeded)
    /\ (Finished /\ ~AnyLineExceeded) =>
         ~AnySmtp /\ ~Logged("send_error") /\ ~Logged("sent")

\* An all-clear run: it finished with a report line, none marked, and never
\* contacted the relay.
C5_Witness ==
    /\ Finished
    /\ alerts # <<>>
    /\ ~AnyLineExceeded
    /\ ~AnySmtp

(* -------------------------------- C6 ----------------------------------- *)

\* C6: a run that probes takes the dispatch step once, after the last probe.
\* The step is never taken twice; it has been taken exactly when the run is
\* submitting or has returned; by then, and before any SMTP operation, every
\* target has been probed; in the order of operations no probe follows an
\* SMTP operation; and the relay is dialled, and the data written, at most
\* once.
C6_DispatchOnceAfterAllProbes ==
    /\ dispatched <= 1
    /\ dispatched = 1 <=> (pc \in SmtpPcs \/ Finished)
    /\ Probing => dispatched = 0 /\ ~AnySmtp
    /\ (dispatched = 1 \/ AnySmtp) =>
         /\ DOMAIN calls = 1..NumServers
         /\ \A i \in 1..NumServers : calls[i] = 1
         /\ Len(results) = NumServers
    /\ \A i \in 1..Len(net) : \A j \in i..Len(net) :
         net[i].op \in SmtpOps => net[j].op \in SmtpOps
    /\ \A op \in {"smtp_dial", "smtp_mail", "smtp_data", "smtp_write"} :
         Cardinality(OpsAt(op)) <= 1

\* A finished run whose submission failed: one dispatch, one dial, no second
\* attempt.
C6_Witness ==
    /\ Finished
    /\ dispatched = 1
    /\ Logged("send_error")
    /\ Cardinality(OpsAt("smtp_dial")) = 1
    /\ NumServers >= 2

(* -------------------------------- C7 ----------------------------------- *)

\* A base-10 integer as text: an optional sign and then digits, at least one.
IsBase10Integer(s) ==
    LET body == IF s # <<>> /\ s[1] \in {"+", "-"} THEN Tail(s) ELSE s
    IN  /\ body # <<>>
        /\ \A i \in 1..Len(body) :
             body[i] \in {"0", "1", "2", "3", "4", "5", "6", "7", "8", "9"}

\* C7: when a probe returned a trimmed output that is not a base-10 integer
\* (empty included), the step that evaluates it adds no report line, leaves
\* the any-exceeded flag as it was, logs a parse diagnostic for that host, and
\* moves on to the next target, or past the loop after the last one; and when
\* the loop is left every target has its result.
C7_ParseFailureIsSkipped ==
    /\ [][(pc = "eval" /\ ~IsBase10Integer(output)) =>
            /\ alerts' = alerts
            /\ alertMaker' = alertMaker
            /\ log' = Append(log, [kind |-> "parse_error",
                                   about |-> Servers[idx].host,
                                   cause |-> "invalid syntax"])
            /\ results' = Append(results, [target |-> idx,
                                           outcome |-> "ParseFailure",
                                           value |-> 0])
            /\ idx' = idx + 1
            /\ pc' = IF idx < NumServers THEN "auth" ELSE "dispatch"]_vars
    /\ [](LoopDone => Len(results) = NumServers)

\* A finished run whose first target printed something that is no integer
\* and whose second target is reported: one line, for the second host, and a
\* parse diagnostic for the first.
C7_Witness ==
    /\ Finished
    /\ NumServers = 2
    /\ results[1].outcome = "ParseFailure"
    /\ results[2].outcome = "Success"
    /\ Len(alerts) = 1
    /\ LineHost(alerts[1]) = Servers[2].host
    /\ \E i \in 1..Len(log) :
         log[i].kind = "parse_error" /\ log[i].about = Servers[1].host

(* -------------------------------- C8 ----------------------------------- *)

NoSockCause == "SSH_AUTH_SOCK variable is not found"
PwLess(i) == Servers[i].password = ""
\* The targets whose runSSHCommand has been entered.
Started == {i \in DOMAIN calls : calls[i] = 1}
\* The targets whose iteration is over.
Done(i) == i <= Len(results)
\* The targets with a password whose ssh.Dial has been attempted.
DialDue(i) ==
    /\ i \in Started
    /\ ~PwLess(i)
    /\ ~(Probing /\ i = idx /\ pc = "dial")
\* The hosts of the targets that satisfy Test, in target order.
HostsWhere(Test(_)) ==
    LET picked == SelectSeq([i \in 1..NumServers |-> i], Test)
    IN  [k \in 1..Len(picked) |-> Servers[picked[k]].host]
DonePwLess(i) == Done(i) /\ PwLess(i)
IsSshDial(e) == e.op = "ssh_dial"
IsNoSockLine(l) == l.cause = NoSockCause
SshDialHosts ==
    LET dials == SelectSeq(net, IsSshDial)
    IN  [k \in 1..Len(dials) |-> dials[k].arg[1]]
NoSockHosts ==
    LET lines == SelectSeq(log, IsNoSockLine)
    IN  [k \in 1..Len(lines) |-> lines[k].about]

\* C8: with no agent endpoint in the environment, a target without a password
\* fails in auth resolution: no agent is dialled, the SSH dials made are
\* exactly those to the targets that have a password, in target order (so none
\* goes to a target without one, and every target with one is still probed),
\* each finished target without a password has an execution failure as its
\* result, and the missing-endpoint diagnostics name exactly those hosts.
\* Whatever the environment, it is read, and the agent dialled, only for
\* targets without a password.
C8_NoCredentialFailsBeforeConnect ==
    /\ sock = "" =>
         /\ OpsAt("agent_dial") = {}
         /\ SshDialHosts = HostsWhere(DialDue)
         /\ \A j \in 1..Len(results) :
              PwLess(j) => results[j].outcome = "ExecutionFailure"
         /\ NoSockHosts = HostsWhere(DonePwLess)
    /\ Cardinality(OpsAt("getenv")) = Cardinality({i \in Started : PwLess(i)})
    /\ Cardinality(OpsAt("agent_dial")) =
         IF sock = "" THEN 0 ELSE Cardinality({i \in Started : PwLess(i)})

\* A finished run without an agent endpoint: the first target has no password
\* and failed without a dial, the second has one, was dialled and is reported.
C8_Witness ==
    /\ Finished
    /\ sock = ""
    /\ NumServers = 2
    /\ PwLess(1)
    /\ ~PwLess(2)
    /\ results[1].outcome = "ExecutionFailure"
    /\ results[2].outcome = "Success"
    /\ SshDialHosts = <<Servers[2].host>>
    /\ NoSockHosts = <<Servers[1].host>>
    /\ Len(alerts) = 1

(* -------------------------------- C9 ----------------------------------- *)

RECURSIVE HeaderLinesFrom(_, _, _, _)
\* The header lines of message m from token i on, where line holds the
\* tokens of the line being read and done the lines read before it: the
\* lines, cut at every "\n", that stand before the first empty line.
HeaderLinesFrom(m, i, line, done) ==
    IF i > Len(m) THEN (IF line = <<>> THEN done ELSE Append(done, line))
    ELSE IF m[i] # "\n" THEN HeaderLinesFrom(m, i + 1, Append(line, m[i]), done)
    ELSE IF line = <<>> THEN done
    ELSE HeaderLinesFrom(m, i + 1, <<>>, Append(done, line))

HeaderLines(m) == HeaderLinesFrom(m, 1, <<>>, <<>>)
\* Whether the header lines h hold one that starts with name.
HasHeader(h, name) == \E i \in 1..Len(h) : h[i][1] = name
\* How often token a stands in the header lines h, and in a list.
InHeaders(h, a) ==
    Cardinality(UNION {{<<i, j>> : j \in {n \in 1..Len(h[i]) : h[i][n] = a}} :
                          i \in 1..Len(h)})
InList(xs, a) == Cardinality({i \in 1..Len(xs) : xs[i] = a})
ListedAddrs ==
    {config.email.to[i] : i \in 1..Len(config.email.to)}
        \cup {config.email.cc[i] : i \in 1..Len(config.email.cc)}
        \cup {config.email.bcc[i] : i \in 1..Len(config.email.bcc)}

\* C9: in the message sendEmail composed, a Cc header line stands if and only
\* if the cc list is non-empty; the header lines are From, To, Cc and Subject
\* lines only, and each address stands in them as often as the To and Cc
\* lists hold it, so none is there on account of the bcc list; yet every bcc
\* address is among the recipients, and once the data transfer has been
\* opened every bcc address has had its recipient command accepted.
C9_CcHeaderAndBlindCopies ==
    msg # <<>> =>
        LET h == HeaderLines(msg)
            rcpts == OpsAt("smtp_rcpt")
            dataOpened == OpsAt("smtp_data") # {}
        IN  /\ HasHeader(h, "Cc: ") <=> Len(config.email.cc) > 0
            /\ \A i \in 1..Len(h) :
                 h[i][1] \in {"From: ", "To: ", "Cc: ", "Subject: "}
            /\ \A a \in ListedAddrs :
                 InHeaders(h, a) =
                     InList(config.email.to, a) + InList(config.email.cc, a)
            /\ \A i \in 1..Len(config.email.bcc) :
                 /\ \E k \in 1..Len(recipients) :
                      recipients[k] = config.email.bcc[i]
                 /\ dataOpened =>
                      \E k \in rcpts :
                          net[k].arg = <<config.email.bcc[i]>> /\ net[k].ok

\* A submission with a cc and a bcc address that has reached its data
\* transfer: the message has a Cc header and the bcc address was submitted.
C9_Witness ==
    /\ msg # <<>>
    /\ Len(config.email.cc) = 1
    /\ Len(config.email.bcc) = 1
    /\ HasHeader(HeaderLines(msg), "Cc: ")
    /\ InHeaders(HeaderLines(msg), config.email.bcc[1]) = 0
    /\ OpsAt("smtp_data") # {}

(* -------------------------------- C10 ---------------------------------- *)

IsSmtp(e) == e.op \in SmtpOps
IsRcpt(e) == e.op = "smtp_rcpt"
\* The operations on the relay so far, in order, and the recipient commands.
SmtpEvents == SelectSeq(net, IsSmtp)
RcptEvents == SelectSeq(net, IsRcpt)
\* The place of a step in a submission.
StepRank(op) ==
    CASE op = "smtp_dial" -> 1
      [] op = "smtp_mail" -> 2
      [] op = "smtp_rcpt" -> 3
      [] op = "smtp_data" -> 4
      [] op = "smtp_write" -> 5
      [] op = "smtp_data_close" -> 6
ConfiguredRecipients == config.email.to \o config.email.cc \o config.email.bcc

\* C10: a submission goes connect, sender, recipients, data.  Its first
\* operation is the dial and the sender command comes next, with the
\* connection open; the steps never go back; every step but the closing of
\* the data transfer is taken only after all earlier steps succeeded; the
\* recipient commands issued are, one per address and in order, a prefix of
\* To, then Cc, then Bcc; and the data transfer is opened at most once, with
\* a recipient command accepted for every address.
C10_SubmissionStepOrder ==
    LET ev == SmtpEvents
        rc == RcptEvents
        all == ConfiguredRecipients
    IN  /\ ev # <<>> => ev[1].op = "smtp_dial"
        /\ Len(ev) >= 2 => ev[2].op = "smtp_mail"
        /\ pc \in SmtpPcs => smtpConn
        /\ \A j \in 1..Len(ev) : \A i \in 1..(j - 1) :
             /\ StepRank(ev[i].op) <= StepRank(ev[j].op)
             /\ ev[j].op # "smtp_data_close" => ev[i].ok
        /\ Len(rc) <= Len(all)
        /\ \A k \in 1..Len(rc) : rc[k].arg = <<all[k]>>
        /\ Cardinality(OpsAt("smtp_data")) <= 1
        /\ OpsAt("smtp_data") # {} =>
             /\ Len(rc) = Len(all)
             /\ \A k \in 1..Len(rc) : rc[k].ok

\* A submission to a cc and a bcc address that has opened its data transfer:
\* the cc address was submitted first, the bcc address second.
C10_Witness ==
    /\ OpsAt("smtp_data") # {}
    /\ Len(config.email.cc) = 1
    /\ Len(config.email.bcc) = 1
    /\ config.email.cc[1] # config.email.bcc[1]
    /\ Len(RcptEvents) = 2
    /\ RcptEvents[1].arg = <<config.email.cc[1]>>
    /\ RcptEvents[2].arg = <<config.email.bcc[1]>>

(* -------------------------------- C11 ---------------------------------- *)

\* The failure sendEmail returns for a failed step, lines 247-273.
FailureCause(op) ==
    CASE op = "smtp_dial" -> "failed to connect to SMTP server"
      [] op = "smtp_mail" -> "failed to set sender"
      [] op = "smtp_rcpt" -> "failed to set recipient"
      [] op = "smtp_data" -> "failed to send email data"
      [] op = "smtp_write" -> "failed to write email body"
      [] op = "smtp_data_close" -> "failed to complete email data"
\* Some step of the submission has failed.
SomeStepFailed == \E i \in 1..Len(net) : net[i].op \in SmtpOps /\ ~net[i].ok

\* C11: a failed step of a submission is followed by no other step, save the
\* closing of a data transfer that was opened; once sendEmail has returned
\* with some step failed, the success line is not in the log and main has
\* logged the failure of the step that failed first, with the address for a
\* recipient step; and the success line is logged only when every step, the
\* completion of the data transfer included, has been taken and succeeded.
C11_FailureAbortsAndSuccessIsComplete ==
    LET ev == SmtpEvents
        n == Len(ev)
        failed == {i \in 1..n : ~ev[i].ok}
    IN  /\ \A i \in failed : \A j \in (i + 1)..n : ev[j].op = "smtp_data_close"
        /\ (Finished /\ failed # {}) =>
             LET f == CHOOSE i \in failed : \A j \in failed : i <= j
             IN  /\ ~Logged("sent")
                 /\ \E k \in 1..Len(log) :
                      /\ log[k].kind = "send_error"
                      /\ log[k].cause = FailureCause(ev[f].op)
                      /\ ev[f].op = "smtp_rcpt" => <<log[k].about>> = ev[f].arg
        /\ Logged("sent") =>
             /\ n > 0
             /\ ev[n].op = "smtp_data_close"
             /\ \A i \in 1..n : ev[i].ok

(* -------------------------------- C12 ---------------------------------- *)

\* C12: a run whose submission failed, as main's log of the failure shows,
\* ends with a non-zero exit status and with the probe results as gathered,
\* one per target and a report line per success; and a run that went through
\* its probes and logged no submission failure ends with exit status zero.
C12_SendFailureExitsNonZero ==
    /\ (pc = "exit" /\ Logged("send_error")) =>
         /\ exitCode > 0
         /\ Len(results) = NumServers
         /\ Len(alerts) = Len(Successes)
    /\ (pc = "exit" /\ dispatched = 1 /\ ~Logged("send_error")) => exitCode = 0

(* -------------------------------- C13 ---------------------------------- *)

\* What the configuration file must hold for a run to go on: it loads, it
\* lists a server, every server has a user, a host, a command and a threshold
\* of zero or more, and the email settings name a relay, a port that is a
\* number from 1 to 65535, and a sender.
ServerOk(s) ==
    s.user # "" /\ s.host # "" /\ s.commands # "" /\ s.threshold >= 0
PortOk(p) ==
    /\ IsBase10Integer(p)
    /\ Atoi(p).val >= 1
    /\ Atoi(p).val <= 65535
ConfigOk ==
    /\ loadErr = "none"
    /\ Len(config.servers) > 0
    /\ \A i \in 1..Len(config.servers) : ServerOk(config.servers[i])
    /\ config.email.smtp_server # ""
    /\ PortOk(config.email.smtp_port)
    /\ config.email.from # ""

\* C13: a run whose configuration does not load or is not valid never leaves
\* the loading and validating steps but to exit: it probes no server, reads no
\* environment, opens no connection, takes no dispatch step, and ends with
\* status 1 and the error logged; and a run that is probing, has left the
\* loop, or has made any network operation, has a configuration that is
\* valid as a whole.
C13_InvalidConfigAbortsBeforeProbing ==
    /\ ~ConfigOk =>
         /\ pc \in {"load", "validate", "exit"}
         /\ net = <<>>
         /\ results = <<>>
         /\ \A i \in DOMAIN calls : calls[i] = 0
         /\ dispatched = 0
         /\ ~sshConn /\ ~agentConn /\ ~smtpConn
         /\ pc = "exit" =>
              /\ exitCode = 1
              /\ Len(log) = 1
              /\ log[1].kind = IF loadErr # "none" THEN "load_error"
                               ELSE "invalid_config"
    /\ (Probing \/ LoopDone \/ net # <<>> \/ calls # <<>>) => ConfigOk

\* A run aborted for its second server: the first is valid, the second has a
\* negative threshold, and nothing was probed or sent.
C13_Witness ==
    /\ pc = "exit"
    /\ exitCode = 1
    /\ loadErr = "none"
    /\ Len(config.servers) = 2
    /\ ServerOk(config.servers[1])
    /\ config.servers[2].threshold < 0
    /\ PortOk(config.email.smtp_port)
    /\ net = <<>>
    /\ calls = <<>>
    /\ Logged("invalid_config")

(* -------------------------------- C14 ---------------------------------- *)

\* Nothing a probe opens is open.
NothingOpen == ~agentConn /\ ~sshConn /\ ~sshSession
\* The execution failures logged so far with the given cause.
FailedWith(cause) ==
    \E k \in 1..Len(log) : log[k].kind = "exec_error" /\ log[k].cause = cause

\* C14: whenever no probe is under way (before the first, between the return
\* of runSSHCommand and the next call, at dispatch, during the submission and
\* after it) the agent connection, the SSH connection and the session are all
\* closed; each is open only in the steps of the probe that use it, a session
\* only on an open connection; and no connection gets a second session.
C14_ProbeReleasesResources ==
    /\ pc \in {"load", "validate", "auth", "eval", "dispatch", "exit"} \cup SmtpPcs
         => NothingOpen
    /\ agentConn => pc = "signers"
    /\ sshConn => pc \in {"session", "run"}
    /\ sshSession => pc = "run" /\ sshConn
    /\ sessions <= 1
    /\ sshSession => sessions = 1

\* A finished run whose first probe failed to get a session on the
\* connection it had opened and whose second probe succeeded: nothing is
\* open.
C14_Witness ==
    /\ Finished
    /\ NumServers = 2
    /\ FailedWith("failed to create session")
    /\ results[1].outcome = "ExecutionFailure"
    /\ results[2].outcome = "Success"
    /\ NothingOpen

(* -------------------------------- C15 ---------------------------------- *)

RECURSIVE SplitFrom(_, _, _, _)
\* The lines of text m from token i on, cut at every "\n", empty lines kept,
\* where line holds the tokens of the line being read and done the lines
\* read before it.
SplitFrom(m, i, line, done) ==
    IF i > Len(m) THEN Append(done, line)
    ELSE IF m[i] = "\n" THEN SplitFrom(m, i + 1, <<>>, Append(done, line))
    ELSE SplitFrom(m, i + 1, Append(line, m[i]), done)

\* The body of message m: what follows its first empty line.
BodyOf(m) ==
    LET ends == {i \in 1..(Len(m) - 1) : m[i] = "\n" /\ m[i + 1] = "\n"}
        first == CHOOSE i \in ends : \A j \in ends : i <= j
    IN  SubSeq(m, first + 2, Len(m))
BodyLines(m) == SplitFrom(BodyOf(m), 1, <<>>, <<>>)

\* The text of the report line of a successful probe r: host, colon and
\* space, the value in decimal, and " *" when the value is at or above the
\* target's threshold.
LineText(r) ==
    <<Servers[r.target].host, ": ">> \o Itoa(r.value)
        \o (IF r.value >= Servers[r.target].threshold THEN <<" *">> ELSE <<>>)

\* The report lines main builds for values 58, 86 and 46 of hosts h1, h2 and
\* h3 with thresholds 100, 10 and 10.
SampleLines ==
    <<ReportLine("h1", 58, Exceeds(58, 100)), ReportLine("h2", 86, Exceeds(86, 10)),
      ReportLine("h3", 46, Exceeds(46, 10))>>

\* C15: the body of the composed message is the template text, an empty
\* line, and then one line per successfully probed target, in target order,
\* each "<host>: <value>" with " *" appended exactly when the value reached
\* the target's threshold; the lines of targets below their threshold are
\* there like the others.  The sample values give "h1: 58", "h2: 86 *" and
\* "h3: 46 *".
C15_BodyIsTemplateThenReportLines ==
    /\ msg # <<>> =>
         LET b == BodyLines(msg)
             ok == Successes
         IN  /\ Len(b) = 2 + Len(ok)
             /\ b[1] = <<config.email.messages>>
             /\ b[2] = <<>>
             /\ \A k \in 1..Len(ok) : b[2 + k] = LineText(ok[k])
             /\ \A k \in 1..Len(alerts) : b[2 + k] = alerts[k]
    /\ SampleLines = << <<"h1", ": ", "5", "8">>, <<"h2", ": ", "8", "6", " *">>,
                        <<"h3", ": ", "4", "6", " *">> >>

\* A written message for two targets, the first below its threshold and the
\* second at or above it: the body holds both lines, the second one marked.
C15_Witness ==
    /\ \E i \in OpsAt("smtp_write") : net[i].ok /\ net[i].arg = msg
    /\ Len(Successes) = 2
    /\ Successes[1].value < Servers[1].threshold
    /\ Successes[2].value >= Servers[2].threshold
    /\ Len(BodyLines(msg)) = 4
    /\ BodyLines(msg)[3] = <<Servers[1].host, ": ">> \o Itoa(Successes[1].value)
    /\ BodyLines(msg)[4][Len(BodyLines(msg)[4])] = " *"

(* -------------------------------- C16 ---------------------------------- *)

IsFailure(r) == r.outcome # "Success"
Failures == SelectSeq(results, IsFailure)
\* The log line main writes for the failed iteration r.
FailureKind(r) ==
    IF r.outcome = "ExecutionFailure" THEN "exec_error" ELSE "parse_error"

\* C16 as stated: at the end of a run that went through its probes the log
\* has a line about every configured server, failed or successfully probed,
\* and ends with a line on the alert: sent, not sent for an error, or not
\* sent because no threshold was reached.
C16_LogCoversEveryServerAndOutcome ==
    Finished =>
        /\ \A j \in 1..NumServers :
             \E k \in 1..Len(log) : log[k].about = Servers[j].host
        /\ log # <<>>
        /\ log[Len(log)].kind \in {"sent", "send_error", "not_sent"}

\* C16, amended: while and after the servers are probed the log starts with
\* one line per failed iteration, in target order, each with the host and the
\* cause; a successfully probed server gets no line; and when main returns
\* the log holds nothing else but, in a run whose any-exceeded flag is set,
\* one last line: the submission error, or the success line, which is written
\* once the message has been written.
C16_LogHoldsFailuresAndSubmissionOutcome ==
    LET fails == Failures
        nf == Len(fails)
    IN  /\ (Probing \/ LoopDone) =>
             /\ Len(log) >= nf
             /\ \A k \in 1..nf :
                  /\ log[k].kind = FailureKind(fails[k])
                  /\ log[k].about = Servers[fails[k].target].host
                  /\ log[k].cause # ""
        /\ (Probing \/ pc = "dispatch" \/ pc \in SmtpPcs) => Len(log) = nf
        /\ Finished =>
             /\ Len(log) = nf + (IF alertMaker THEN 1 ELSE 0)
             /\ alertMaker => log[Len(log)].kind \in {"sent", "send_error"}
             /\ Logged("sent") =>
                  \E i \in OpsAt("smtp_write") : net[i].ok /\ net[i].arg = msg
             /\ Logged("send_error") => SomeStepFailed

\* A finished run whose first server failed and whose second was probed
\* below its threshold: the log holds the line of the first and nothing on
\* the second or on the alert.
C16_Witness ==
    /\ Finished
    /\ NumServers = 2
    /\ results[1].outcome = "ExecutionFailure"
    /\ results[2].outcome = "Success"
    /\ ~alertMaker
    /\ Len(log) = 1
    /\ log[1].about = Servers[1].host

(* -------------------------------- C17 ---------------------------------- *)

\* C17: when getSSHAuthMethod has handed runSSHCommand the agent's signers
\* and ssh.Dial is about to use them, the agent connection they sign over is
\* open; and every request to the agent for a signature found it open.
C17_AgentOpenWhenSigning ==
    /\ (pc = "dial" /\ authMethod = "agent") => agentConn
    /\ \A i \in OpsAt("agent_sign") : net[i].ok

(* -------------------------------- C18 ---------------------------------- *)

\* C18 as stated: a submission that has opened its data transfer had a
\* recipient sequence that is not empty and has had a recipient command
\* accepted.
C18_DataHasARecipient ==
    OpsAt("smtp_data") # {} =>
        /\ recipients # <<>>
        /\ \E i \in OpsAt("smtp_rcpt") : net[i].ok

\* C18, amended: validateConfig turns down no configuration for its To, Cc
\* and Bcc lists being empty; the recipients of a submission are To, then Cc,
\* then Bcc; and a submission that has opened its data transfer has before
\* that had one recipient command accepted per address of that sequence, in
\* order, which is none at all when the three lists are empty.
C18_DataFollowsEveryConfiguredRecipient ==
    LET rc == RcptEvents
        all == ConfiguredRecipients
    IN  /\ (pc = "exit" /\ Logged("invalid_config")) => ~ConfigOk
        /\ pc \in SmtpPcs => recipients = all
        /\ OpsAt("smtp_data") # {} =>
             /\ Len(rc) = Len(all)
             /\ \A k \in 1..Len(rc) : rc[k].ok /\ rc[k].arg = <<all[k]>>
             /\ \A i \in OpsAt("smtp_rcpt") : \A j \in OpsAt("smtp_data") : i < j
             /\ all = <<>> => OpsAt("smtp_rcpt") = {}

\* A submission for a configuration without any address that has opened its
\* data transfer right after the sender command.
C18_Witness ==
    /\ ConfigOk
    /\ ConfiguredRecipients = <<>>
    /\ OpsAt("smtp_rcpt") = {}
    /\ \E j \in OpsAt("smtp_data") : j > 1 /\ net[j - 1].op = "smtp_mail"

=============================================================================
